---------------------------- MODULE Spec2Model ----------------------------
(***************************************************************************)
(* Attendance bot (src/bot.js): the attendance state machine, its          *)
(* time accounting, the command router, and the persistence of the         *)
(* in-memory table attendanceData to attendance.json.                      *)
(*                                                                         *)
(* Encoding.                                                               *)
(*  - A JavaScript object is a function whose DOMAIN is the set of keys    *)
(*    present; {} is EmptyMap.                                             *)
(*  - An optional value (absent, undefined or null in the code, all of     *)
(*    them falsy) is Unset = <<>>; a present value v is Set(v) = <<v>>.    *)
(*  - An instant is a number of clock ticks since 1970-01-01T00:00Z, with  *)
(*    TicksPerMinute ticks in a minute.  now.toISOString() and             *)
(*    new Date(iso) are inverse to each other at millisecond precision,    *)
(*    so a stored ISO string is modelled by the instant itself.            *)
(*  - A message text is a sequence of tokens: the four lifecycle keywords, *)
(*    the two status keywords, a blank "sp", the English words "w" and     *)
(*    "v" (four letters each), a Japanese word "ja" (two characters) and   *)
(*    a number "n" (two digits).  A keyword is two characters long.        *)
(*    Keywords are written in romaji: shukkin (check in), kyuukei (break), *)
(*    saikai (resume), taikin (check out), joukyou and kakunin (status).   *)
(*  - totalHours, the string workTime.toFixed(2), is modelled by the       *)
(*    number of hundredths of an hour it denotes.                          *)
(***************************************************************************)
EXTENDS Integers, Sequences, FiniteSets, TLC

\* ------------------------------------------------------------------ bounds

\* Clock ticks in one minute (the granularity of the modelled clock).
TicksPerMinute == 4
\* Number of ticks the clock may advance after the first instant.
MaxTicks == 4
\* The same, in the specifications with two users or with failures.
ShortTicks == 1
\* Breaks one record may hold.
MaxBreaks == 2

\* ------------------------------------------------------- values and helpers

Users == {"u1", "u2"}

\* Message handlers that can be between two awaits at the same time.
Slots == {1, 2}

Unset == <<>>
Set(v) == <<v>>
IsSet(o) == o # Unset
Val(o) == o[1]

EmptyMap == [k \in {} |-> k]
Has(m, k) == k \in DOMAIN m
Put(m, k, v) == [x \in (DOMAIN m) \cup {k} |-> IF x = k THEN v ELSE m[x]]

RECURSIVE SumSeq(_)
SumSeq(s) == IF s = <<>> THEN 0 ELSE Head(s) + SumSeq(Tail(s))

\* ---------------------------------------------------------------- the clock

TicksPerHour == 60 * TicksPerMinute
TicksPerDay == 24 * TicksPerHour
\* The first modelled instant, 09:00 UTC of day 0, and the last one.
FirstTick == 9 * TicksPerHour
LastTick == FirstTick + MaxTicks
SoonTick == FirstTick + ShortTicks

\* new Date().toISOString().split('T')[0]: the UTC calendar date of an instant.
DateOf(t) == t \div TicksPerDay

\* Math.round(num / den) for den > 0: the nearest integer, halves upwards.
MathRound(num, den) == (2 * num + den) \div (2 * den)


\* Math.floor in the place of Math.round.
BreakDurationFloor(start, now) == (now - start) \div TicksPerMinute

\* breakDuration = (now - breakStart) / (1000 * 60); Math.round(breakDuration)
BreakDuration(start, now) == MathRound(now - start, TicksPerMinute)

\* (num / den).toFixed(2) in hundredths: the integers nearest to 100*num/den.
\* On an exact tie the double nearest to the quotient decides, which may lie
\* on either side of the tie: both neighbours are possible outcomes.
ToFixed2(num, den) ==
  LET f == (100 * num) \div den
  IN  {n \in {f, f + 1} :
         LET d == 100 * num - n * den
         IN  2 * (IF d < 0 THEN -d ELSE d) <= den}


\* --------------------------------------------------------- command router

\* The table with its entries in the opposite order.
attendanceCommandsReversed ==
  << [keyword |-> "taikin",  command |-> "off"],
     [keyword |-> "saikai",  command |-> "return"],
     [keyword |-> "kyuukei", command |-> "break"],
     [keyword |-> "shukkin", command |-> "start"] >>

\* const attendanceCommands = { ... }: Object.entries yields the entries in
\* the order in which they are written.
attendanceCommands ==
  << [keyword |-> "shukkin", command |-> "start"],
     [keyword |-> "kyuukei", command |-> "break"],
     [keyword |-> "saikai",  command |-> "return"],
     [keyword |-> "taikin",  command |-> "off"] >>

\* content.includes(keyword)
Includes(content, keyword) == \E i \in 1..Len(content) : content[i] = keyword

\* content.replace(keyword, ''): the first occurrence only is removed.
ReplaceFirst(content, keyword) ==
  IF ~Includes(content, keyword) THEN content
  ELSE LET i == CHOOSE j \in 1..Len(content) :
                  /\ content[j] = keyword
                  /\ \A k \in 1..(j - 1) : content[k] # keyword
       IN  SubSeq(content, 1, i - 1) \o SubSeq(content, i + 1, Len(content))

\* String.prototype.trim()
RECURSIVE Trim(_)
Trim(s) ==
  IF s = <<>> THEN s
  ELSE IF Head(s) = "sp" THEN Trim(Tail(s))
  ELSE IF s[Len(s)] = "sp" THEN Trim(SubSeq(s, 1, Len(s) - 1))
  ELSE s

\* The index in attendanceCommands of the first keyword, in the order of the
\* table, that the content includes; 0 when it includes none.
FirstMatch(content) ==
  IF \E i \in 1..Len(attendanceCommands) :
        Includes(content, attendanceCommands[i].keyword)
  THEN CHOOSE i \in 1..Len(attendanceCommands) :
         /\ Includes(content, attendanceCommands[i].keyword)
         /\ \A j \in 1..(i - 1) : ~Includes(content, attendanceCommands[j].keyword)
  ELSE 0

\* checkForAttendanceCommand(content): Unset for null.
checkForAttendanceCommand(content) ==
  LET i == FirstMatch(content)
  IN  IF i = 0 THEN Unset
      ELSE Set([command |-> attendanceCommands[i].command,
                keyword |-> attendanceCommands[i].keyword,
                additionalText |->
                  Trim(ReplaceFirst(content, attendanceCommands[i].keyword))])

\* message.content === '状況' || message.content === '確認'
IsStatusQuery(content) == content = <<"joukyou">> \/ content = <<"kakunin">>

\* ------------------------------------------------- translation eligibility

\* The tokens written in hiragana, katakana or kanji.
JapaneseTokens ==
  {"shukkin", "kyuukei", "saikai", "taikin", "joukyou", "kakunin", "ja"}

\* The Latin letters and the characters of a token.
LettersOf(token) == IF token \in {"w", "v"} THEN 4 ELSE 0
CharsOf(token) ==
  IF token = "sp" THEN 1 ELSE IF token \in {"w", "v"} THEN 4 ELSE 2

\* message.content.length
LengthOf(content) == SumSeq([i \in 1..Len(content) |-> CharsOf(content[i])])

\* japaneseRegex.test(text)
containsJapanese(content) ==
  \E i \in 1..Len(content) : content[i] \in JapaneseTokens

\* hasEnglish && !hasJapanese && text.replace(/[^a-zA-Z]/g, '').length >= 3
containsEnglish(content) ==
  /\ ~containsJapanese(content)
  /\ SumSeq([i \in 1..Len(content) |-> LettersOf(content[i])]) >= 3

\* getTranslationDirection(text): "none" for null.
getTranslationDirection(content) ==
  IF containsJapanese(content) THEN "jp-to-en"
  ELSE IF containsEnglish(content) THEN "en-to-jp"
  ELSE "none"

\* Channels a message may be posted in; the attendance and the git channel are
\* config.attendanceChannelId and config.gitChannelId.
Channels == {"work", "attendance", "git"}
excludedChannels == {"attendance", "git"}

\* shouldTranslate without its list of excluded channels.
shouldTranslateAlways(channelId) == TRUE

\* shouldTranslate(channelId)
shouldTranslate(channelId) == channelId \notin excludedChannels

\* Whether the messageCreate handler, for a text that is neither a status
\* query nor a command, calls translateText: the channel is not excluded, the
\* text has a direction, and handleTranslation does not skip it.
CallsTranslate(content, channelId) ==
  /\ shouldTranslate(channelId)
  /\ getTranslationDirection(content) # "none"
  /\ ~(LengthOf(content) < 3 \/ IsSet(checkForAttendanceCommand(content)))

\* --------------------------------------------------- attendance transitions
\* Each handler is given the table, the user, the day key, the instant and the
\* report, and yields the set of its possible outcomes: the table it leaves and
\* "ok" or the rejection it replies with.

\* A record made without its report.
NoteDropped(report) == Unset

\* report || null
Note(report) == IF report = <<>> THEN Unset ELSE Set(report)

HasRecord(data, userId, today) == Has(data, userId) /\ Has(data[userId], today)

\* attendanceData[userId][today] = rec (or a field assignment on that record)
PutRecord(data, userId, today, rec) ==
  Put(data, userId, Put(data[userId], today, rec))

\* currentBreak.end = now...; currentBreak.duration = Math.round(breakDuration)
CloseBreak(brk, now, report) ==
  [brk EXCEPT !.end = Set(now),
              !.duration = Set(BreakDuration(brk.start, now)),
              !.returnReport = IF report # <<>> THEN Set(report) ELSE @]

\* The breaks list with its last element closed, when that element exists and
\* has no end (if (currentBreak && !currentBreak.end) { ... }).
CloseCurrentBreak(breaks, now, report) ==
  IF Len(breaks) > 0 /\ ~IsSet(breaks[Len(breaks)].end)
  THEN [breaks EXCEPT ![Len(breaks)] = CloseBreak(@, now, report)]
  ELSE breaks


\* handleStart that looks for a record still open instead of a check-in.
handleStartReopens(data, userId, today, now, report) ==
  LET d1 == IF ~Has(data, userId) THEN Put(data, userId, EmptyMap) ELSE data
  IN  IF Has(d1[userId], today) /\ d1[userId][today].status # "finished"
      THEN {[data |-> d1, result |-> "AlreadyCheckedIn"]}
      ELSE {[data |-> PutRecord(d1, userId, today,
                        [username |-> userId,
                         start |-> Set(now),
                         status |-> "working",
                         breaks |-> <<>>,
                         reports |-> [checkIn |-> Note(report), checkOut |-> Unset],
                         end |-> Unset,
                         totalHours |-> Unset,
                         totalBreakMinutes |-> Unset]),
             result |-> "ok"]}

handleStart(data, userId, today, now, report) ==
  LET d1 == IF ~Has(data, userId) THEN Put(data, userId, EmptyMap) ELSE data
  IN  IF Has(d1[userId], today) /\ IsSet(d1[userId][today].start)
      THEN {[data |-> d1, result |-> "AlreadyCheckedIn"]}
      ELSE {[data |-> PutRecord(d1, userId, today,
                        [username |-> userId,
                         start |-> Set(now),
                         status |-> "working",
                         breaks |-> <<>>,
                         reports |-> [checkIn |-> Note(report), checkOut |-> Unset],
                         end |-> Unset,
                         totalHours |-> Unset,
                         totalBreakMinutes |-> Unset]),
             result |-> "ok"]}


\* handleBreak without its two status checks.
handleBreakUnchecked(data, userId, today, now, report) ==
  IF ~HasRecord(data, userId, today) \/ ~IsSet(data[userId][today].start)
  THEN {[data |-> data, result |-> "NotCheckedIn"]}
  ELSE LET rec == data[userId][today]
       IN  {[data |-> PutRecord(data, userId, today,
                        [rec EXCEPT
                           !.breaks = Append(@, [start |-> now,
                                                 report |-> Note(report),
                                                 end |-> Unset,
                                                 duration |-> Unset,
                                                 returnReport |-> Unset]),
                           !.status = "break"]),
             result |-> "ok"]}

\* handleBreak that stamps the break with the start of the record instead of
\* the instant of the command.
handleBreakAtCheckIn(data, userId, today, now, report) ==
  IF ~HasRecord(data, userId, today) \/ ~IsSet(data[userId][today].start)
  THEN {[data |-> data, result |-> "NotCheckedIn"]}
  ELSE IF data[userId][today].status = "break"
  THEN {[data |-> data, result |-> "AlreadyOnBreak"]}
  ELSE IF data[userId][today].status = "finished"
  THEN {[data |-> data, result |-> "AlreadyFinished"]}
  ELSE LET rec == data[userId][today]
       IN  {[data |-> PutRecord(data, userId, today,
                        [rec EXCEPT
                           !.breaks = Append(@, [start |-> Val(rec.start),
                                                 report |-> Note(report),
                                                 end |-> Unset,
                                                 duration |-> Unset,
                                                 returnReport |-> Unset]),
                           !.status = "break"]),
             result |-> "ok"]}

handleBreak(data, userId, today, now, report) ==
  IF ~HasRecord(data, userId, today) \/ ~IsSet(data[userId][today].start)
  THEN {[data |-> data, result |-> "NotCheckedIn"]}
  ELSE IF data[userId][today].status = "break"
  THEN {[data |-> data, result |-> "AlreadyOnBreak"]}
  ELSE IF data[userId][today].status = "finished"
  THEN {[data |-> data, result |-> "AlreadyFinished"]}
  ELSE LET rec == data[userId][today]
       IN  {[data |-> PutRecord(data, userId, today,
                        [rec EXCEPT
                           !.breaks = Append(@, [start |-> now,
                                                 report |-> Note(report),
                                                 end |-> Unset,
                                                 duration |-> Unset,
                                                 returnReport |-> Unset]),
                           !.status = "break"]),
             result |-> "ok"]}

\* handleReturn that closes the break and leaves the status as it is.
handleReturnKeepsStatus(data, userId, today, now, report) ==
  IF ~HasRecord(data, userId, today) \/ data[userId][today].status # "break"
  THEN {[data |-> data, result |-> "NotOnBreak"]}
  ELSE LET rec == data[userId][today]
       IN  {[data |-> PutRecord(data, userId, today,
                        [rec EXCEPT
                           !.breaks = CloseCurrentBreak(@, now, report)]),
             result |-> "ok"]}

handleReturn(data, userId, today, now, report) ==
  IF ~HasRecord(data, userId, today) \/ data[userId][today].status # "break"
  THEN {[data |-> data, result |-> "NotOnBreak"]}
  ELSE LET rec == data[userId][today]
       IN  {[data |-> PutRecord(data, userId, today,
                        [rec EXCEPT
                           !.breaks = CloseCurrentBreak(@, now, report),
                           !.status = "working"]),
             result |-> "ok"]}

\* totalBreakTime: the sum of the truthy durations of the breaks.
TotalBreakTime(breaks) ==
  SumSeq([i \in 1..Len(breaks) |->
            IF IsSet(breaks[i].duration) THEN Val(breaks[i].duration) ELSE 0])


\* The work time without the breaks taken off.
WorkTimeFixedGross(start, now, totalBreakTime) ==
  ToFixed2(now - start, 60 * TicksPerMinute)

\* workTime.toFixed(2), with workTime = totalTime - totalBreakTime / 60 and
\* totalTime = (now - startTime) / (1000 * 60 * 60).
WorkTimeFixed(start, now, totalBreakTime) ==
  ToFixed2((now - start) - totalBreakTime * TicksPerMinute, 60 * TicksPerMinute)


\* handleOff that begins as handleStart does, by making the entry of the user.
handleOffMakesEntry(data, userId, today, now, report) ==
  LET d1 == IF ~Has(data, userId) THEN Put(data, userId, EmptyMap) ELSE data
  IN  IF ~Has(d1[userId], today) \/ ~IsSet(d1[userId][today].start)
      THEN {[data |-> d1, result |-> "NotCheckedIn"]}
      ELSE IF d1[userId][today].status = "finished"
      THEN {[data |-> d1, result |-> "AlreadyFinished"]}
      ELSE LET rec == d1[userId][today]
               breaks == IF rec.status = "break"
                         THEN CloseCurrentBreak(rec.breaks, now, <<>>)
                         ELSE rec.breaks
               totalBreakTime == TotalBreakTime(breaks)
           IN  {[data |-> PutRecord(d1, userId, today,
                            [rec EXCEPT
                               !.breaks = breaks,
                               !.end = Set(now),
                               !.status = "finished",
                               !.reports = [@ EXCEPT !.checkOut =
                                              IF report # <<>> THEN Set(report) ELSE @],
                               !.totalHours = Set(h),
                               !.totalBreakMinutes = Set(totalBreakTime)]),
                 result |-> "ok"]
                : h \in WorkTimeFixed(Val(rec.start), now, totalBreakTime)}

handleOff(data, userId, today, now, report) ==
  IF ~HasRecord(data, userId, today) \/ ~IsSet(data[userId][today].start)
  THEN {[data |-> data, result |-> "NotCheckedIn"]}
  ELSE IF data[userId][today].status = "finished"
  THEN {[data |-> data, result |-> "AlreadyFinished"]}
  ELSE LET rec == data[userId][today]
           breaks == IF rec.status = "break"
                     THEN CloseCurrentBreak(rec.breaks, now, <<>>)
                     ELSE rec.breaks
           totalBreakTime == TotalBreakTime(breaks)
       IN  {[data |-> PutRecord(data, userId, today,
                        [rec EXCEPT
                           !.breaks = breaks,
                           !.end = Set(now),
                           !.status = "finished",
                           !.reports = [@ EXCEPT !.checkOut =
                                          IF report # <<>> THEN Set(report) ELSE @],
                           !.totalHours = Set(h),
                           !.totalBreakMinutes = Set(totalBreakTime)]),
             result |-> "ok"]
            : h \in WorkTimeFixed(Val(rec.start), now, totalBreakTime)}

\* The switch of the messageCreate handler on attendanceInfo.command.
Apply(command, data, userId, today, now, report) ==
  CASE command = "start"  -> handleStart(data, userId, today, now, report)
    [] command = "break"  -> handleBreak(data, userId, today, now, report)
    [] command = "return" -> handleReturn(data, userId, today, now, report)
    [] command = "off"    -> handleOff(data, userId, today, now, report)


\* ------------------------------------------------------------- persistence

\* JSON.stringify(attendanceData, null, 2): the text of a complete mapping.
\* Every value the handlers store is a string, a whole number, null, an array
\* or an object, which JSON writes and reads back unchanged.
JSONstringify(data) == [kind |-> "json", data |-> data]

\* What a record adds to the length of the text, in units that order the texts
\* of one history of the table as their lengths do: every accepted transition
\* adds fields or elements to its record and takes none away, so the text of
\* the table grows with each of them.
RecordSize(rec) ==
  1 + Len(rec.breaks)
    + Cardinality({i \in 1..Len(rec.breaks) : IsSet(rec.breaks[i].end)})
    + (IF IsSet(rec.end) THEN 1 ELSE 0)

RECURSIVE SizeOf(_, _)
SizeOf(data, keys) ==
  IF keys = {} THEN 0
  ELSE LET k == CHOOSE x \in keys : TRUE
       IN  RecordSize(data[k[1]][k[2]]) + SizeOf(data, keys \ {k})

\* The length of a text of the table.
TextLength(text) ==
  1 + Cardinality(DOMAIN text.data)
    + SizeOf(text.data,
             UNION {{<<u, d>> : d \in DOMAIN text.data[u]} : u \in DOMAIN text.data})

\* What loadAttendanceData leaves in attendanceData for a text read from
\* attendance.json: JSON.parse(data), or {} when readFile or JSON.parse throws
\* (the file is missing, empty, truncated or mixed).
LoadResult(text) == IF text.kind = "json" THEN text.data ELSE EmptyMap

\* ---------------------------------------------------------------- the state

VARIABLES
  attendanceData,  \* let attendanceData: userId -> date -> record
  clock,           \* the wall clock that new Date() reads
  disk,            \* attendance.json: its content and length, and the write that touched it last
  handlers,        \* the messageCreate handlers that are between two awaits
  loader           \* the position of loadAttendanceData, and the text it read

vars == <<attendanceData, clock, disk, handlers, loader>>

\* Message texts delivered by the chat transport.
PlainTexts ==
  { <<"shukkin">>, <<"kyuukei">>, <<"saikai">>, <<"taikin">>, <<"joukyou">>, <<"w">> }

IdleSlot ==
  [pc |-> "idle", write |-> "none", dirty |-> FALSE, user |-> "", command |-> "",
   today |-> 0, now |-> 0, text |-> JSONstringify(EmptyMap), answer |-> ""]

NoText == [kind |-> "missing", data |-> EmptyMap]

\* The service has started on a host without attendance.json: the load has
\* failed and left the table empty.
Init ==
  /\ attendanceData = EmptyMap
  /\ clock = FirstTick
  /\ disk = [kind |-> "missing", data |-> EmptyMap, by |-> 0, len |-> 0]
  /\ handlers = [h \in Slots |-> IdleSlot]
  /\ loader = [pc |-> "done", text |-> NoText]

\* Time passes.
Tick(limit) ==
  /\ clock < limit
  /\ clock' = clock + 1
  /\ UNCHANGED <<attendanceData, disk, handlers, loader>>

\* The slot a new handler takes: the lowest idle one.
FreeSlot(slots) ==
  CHOOSE h \in slots :
    /\ handlers[h].pc = "idle"
    /\ \A g \in slots : handlers[g].pc = "idle" => h <= g

\* handleStatusCheck that makes the entry of the user, as handleStart does.
handleStatusCheckMakesEntry(data, userId, today) ==
  LET d1 == IF ~Has(data, userId) THEN Put(data, userId, EmptyMap) ELSE data
  IN  [data |-> d1,
       answer |-> IF ~Has(d1[userId], today) THEN "NotFound"
                  ELSE d1[userId][today].status]

\* handleStatusCheck that reads attendanceData[userId][today] without looking
\* for attendanceData[userId] first: a TypeError when the user has no entry.
handleStatusCheckUnguarded(data, userId, today) ==
  [data |-> data,
   answer |-> IF ~Has(data, userId) THEN "TypeError"
              ELSE IF ~Has(data[userId], today) THEN "NotFound"
              ELSE data[userId][today].status]

\* handleStatusCheck(message), up to its reply: the table it leaves and what
\* it answers, "NotFound" or the status of the record of the current date.
handleStatusCheck(data, userId, today) ==
  [data |-> data,
   answer |-> IF ~Has(data, userId) \/ ~Has(data[userId], today) THEN "NotFound"
              ELSE data[userId][today].status]


\* saveAttendanceData() called without await.
SaveNotAwaited(h) == TRUE

\* The handler continues only when the promise of saveAttendanceData() has
\* settled: the write has ended, in success or in a logged error.
SaveSettled(h) == handlers[h].write \in {"done", "failed"}


\* The table serialized before the mutation.
SaveTextStale(before, after) == JSONstringify(before)

\* The text handed to fs.writeFile: the table as it is when saveAttendanceData
\* is called, after the mutation.
SaveText(before, after) == JSONstringify(after)

\* The break list of a record may grow (the code sets no limit; the model does).
BreakRoom(data, userId, today) ==
  HasRecord(data, userId, today) => Len(data[userId][today].breaks) < MaxBreaks

\* The handler that an accepted command leaves waiting for saveAttendanceData.
Saving(command, userId, today, now, before, after) ==
  [pc |-> "save", write |-> "requested", dirty |-> FALSE, user |-> userId,
   command |-> command, today |-> today, now |-> now,
   text |-> SaveText(before, after), answer |-> ""]

\* client.on('messageCreate'): the synchronous part of the handler, up to its
\* first await.  today is read from the clock before now is, and the clock may
\* advance between the two reads (adv).  A status query, a rejected command and
\* a message without keyword end in a reply; an accepted command changes the
\* table, calls saveAttendanceData and waits for it.
Receive(userId, content, adv, slots, limit) ==
  /\ clock + adv <= limit
  /\ \E h \in slots : handlers[h].pc = "idle"
  /\ LET today == DateOf(clock)
         now == clock + adv
         info == checkForAttendanceCommand(content)
     IN  IF IsStatusQuery(content) \/ ~IsSet(info)
         THEN UNCHANGED <<attendanceData, clock, handlers>>
         ELSE LET command == Val(info).command
                  report == Trim(Val(info).additionalText)
              IN  /\ command = "break" => BreakRoom(attendanceData, userId, today)
                  /\ clock' = now
                  /\ \E o \in Apply(command, attendanceData, userId, today, now, report) :
                       /\ attendanceData' = o.data
                       /\ handlers' =
                            IF o.result = "ok"
                            THEN [handlers EXCEPT ![FreeSlot(slots)] =
                                    Saving(command, userId, today, now,
                                           attendanceData, o.data)]
                            ELSE handlers
  /\ UNCHANGED <<disk, loader>>

\* fs.writeFile opens attendance.json for writing, which empties it.
WriteOpen(h) ==
  /\ handlers[h].write = "requested"
  /\ handlers' = [handlers EXCEPT ![h].write = "opened"]
  /\ disk' = [kind |-> "corrupt", data |-> EmptyMap, by |-> h, len |-> 0]
  /\ UNCHANGED <<attendanceData, clock, loader>>

\* fs.writeFile writes its text from the start of the file and closes it.  When
\* another write has put a longer text there since this one opened the file,
\* the tail of that text stays behind this one (mixed); otherwise the file is
\* this text.
WriteData(h, mixed) ==
  /\ handlers[h].write = "opened"
  /\ mixed => handlers[h].dirty
  /\ mixed <=> disk.len > TextLength(handlers[h].text)
  /\ disk' = IF mixed
             THEN [kind |-> "corrupt", data |-> EmptyMap, by |-> h, len |-> disk.len]
             ELSE [kind |-> "json", data |-> handlers[h].text.data, by |-> h,
                   len |-> TextLength(handlers[h].text)]
  /\ handlers' = [g \in Slots |->
                    IF g = h THEN [handlers[g] EXCEPT !.write = "done"]
                    ELSE IF handlers[g].write = "opened"
                    THEN [handlers[g] EXCEPT !.dirty = TRUE]
                    ELSE handlers[g]]
  /\ UNCHANGED <<attendanceData, clock, loader>>

\* saveAttendanceData without its catch: the error of fs.writeFile reaches the
\* catch of the messageCreate handler.
WriteFailThrows(h) ==
  /\ handlers[h].write \in {"requested", "opened"}
  /\ handlers' = [handlers EXCEPT ![h].write = "failed", ![h].pc = "catch"]
  /\ UNCHANGED <<attendanceData, clock, disk, loader>>

\* fs.writeFile fails; saveAttendanceData catches the error and logs it.
WriteFail(h) ==
  /\ handlers[h].write \in {"requested", "opened"}
  /\ handlers' = [handlers EXCEPT ![h].write = "failed"]
  /\ UNCHANGED <<attendanceData, clock, disk, loader>>

\* A handler that holds a copy of its record across the await of its save and
\* stores the copy back before it replies.
ReplyStoresRecord(h) ==
  /\ handlers[h].pc = "save"
  /\ SaveSettled(h)
  /\ handlers' = [handlers EXCEPT ![h].pc = "sent"]
  /\ attendanceData' =
       PutRecord(attendanceData, handlers[h].user, handlers[h].today,
                 handlers[h].text.data[handlers[h].user][handlers[h].today])
  /\ UNCHANGED <<clock, disk, loader>>

\* await message.reply({ embeds: [embed] }): the acknowledgment is sent.
Reply(h) ==
  /\ handlers[h].pc = "save"
  /\ SaveSettled(h)
  /\ handlers' = [handlers EXCEPT ![h].pc = "sent"]
  /\ UNCHANGED <<attendanceData, clock, disk, loader>>

\* message.reply throws: control passes to the catch of the messageCreate
\* handler.
ReplyFail(h) ==
  /\ handlers[h].pc = "save"
  /\ SaveSettled(h)
  /\ handlers' = [handlers EXCEPT ![h].pc = "catch"]
  /\ UNCHANGED <<attendanceData, clock, disk, loader>>

\* The sends that follow the acknowledgment succeed and the handler returns.
Send(h) ==
  /\ handlers[h].pc = "sent"
  /\ handlers' = [handlers EXCEPT ![h] = IdleSlot]
  /\ UNCHANGED <<attendanceData, clock, disk, loader>>

\* A send that follows the acknowledgment throws.
SendFail(h) ==
  /\ handlers[h].pc = "sent"
  /\ handlers' = [handlers EXCEPT ![h].pc = "catch"]
  /\ UNCHANGED <<attendanceData, clock, disk, loader>>

\* The catch of the messageCreate handler replies with the generic failure
\* message and the handler returns.
CatchReply(h) ==
  /\ handlers[h].pc = "catch"
  /\ handlers' = [handlers EXCEPT ![h] = IdleSlot]
  /\ UNCHANGED <<attendanceData, clock, disk, loader>>

\* The status branch of the messageCreate handler, up to the reply of
\* handleStatusCheck: today is read from the clock, the record is looked up,
\* and the handler waits for message.reply with its answer.
StatusCheck(userId, slots) ==
  /\ \E h \in slots : handlers[h].pc = "idle"
  /\ LET today == DateOf(clock)
         r == handleStatusCheck(attendanceData, userId, today)
     IN  /\ attendanceData' = r.data
         /\ handlers' = [handlers EXCEPT ![FreeSlot(slots)] =
                          [IdleSlot EXCEPT !.pc = "status", !.user = userId,
                                           !.command = "status", !.today = today,
                                           !.answer = r.answer]]
  /\ UNCHANGED <<clock, disk, loader>>

\* The reply of handleStatusCheck ends and the handler returns.
StatusReply(h) ==
  /\ handlers[h].pc = "status"
  /\ handlers' = [handlers EXCEPT ![h] = IdleSlot]
  /\ UNCHANGED <<attendanceData, clock, disk, loader>>

\* The last branch of the messageCreate handler, for a text that is neither a
\* status query nor a command: handleTranslation calls translateText and waits
\* for it, or the handler has nothing to do and returns.
Other(userId, content, channelId, slots) ==
  /\ \E h \in slots : handlers[h].pc = "idle"
  /\ handlers' = [handlers EXCEPT ![FreeSlot(slots)] =
                   [IdleSlot EXCEPT
                      !.pc = IF CallsTranslate(content, channelId)
                             THEN "translate" ELSE "return",
                      !.user = userId,
                      !.command = "none",
                      !.answer = IF CallsTranslate(content, channelId)
                                 THEN getTranslationDirection(content) ELSE "none"]]
  /\ UNCHANGED <<attendanceData, clock, disk, loader>>

\* translateText ends (with a text, which is replied, or with null) and the
\* handler returns.
Translated(h) ==
  /\ handlers[h].pc = "translate"
  /\ handlers' = [handlers EXCEPT ![h] = IdleSlot]
  /\ UNCHANGED <<attendanceData, clock, disk, loader>>

\* The handler of a message that is neither answered nor translated returns.
Return(h) ==
  /\ handlers[h].pc = "return"
  /\ handlers' = [handlers EXCEPT ![h] = IdleSlot]
  /\ UNCHANGED <<attendanceData, clock, disk, loader>>

\* client.on('messageCreate') with its three branches in the order of the
\* code: the status query, the attendance command, the translation.
Message(userId, content, channelId, slots, limit) ==
  IF IsStatusQuery(content) THEN StatusCheck(userId, slots)
  ELSE IF IsSet(checkForAttendanceCommand(content))
  THEN Receive(userId, content, 0, slots, limit)
  ELSE Other(userId, content, channelId, slots)

\* The process dies and is started again: the table is empty, no handler is
\* running, the file is as the last write step left it, and the ready handler
\* calls loadAttendanceData.
Crash ==
  /\ attendanceData' = EmptyMap
  /\ handlers' = [h \in Slots |-> IdleSlot]
  /\ loader' = [pc |-> "reading", text |-> NoText]
  /\ UNCHANGED <<clock, disk>>

\* loadAttendanceData: fs.readFile ends, with the content of the file or with
\* an error.
LoadRead ==
  /\ loader.pc = "reading"
  /\ loader' = [pc |-> "parsing", text |-> [kind |-> disk.kind, data |-> disk.data]]
  /\ UNCHANGED <<attendanceData, clock, disk, handlers>>

\* loadAttendanceData without its catch: a file that cannot be read or parsed
\* ends the startup with an unhandled rejection.
LoadAssignFatal ==
  /\ loader.pc = "parsing"
  /\ IF loader.text.kind = "json"
     THEN /\ attendanceData' = loader.text.data
          /\ loader' = [pc |-> "done", text |-> NoText]
     ELSE /\ attendanceData' = attendanceData
          /\ loader' = [pc |-> "dead", text |-> NoText]
  /\ UNCHANGED <<clock, disk, handlers>>

\* loadAttendanceData: after the await, attendanceData is assigned.
LoadAssign ==
  /\ loader.pc = "parsing"
  /\ attendanceData' = LoadResult(loader.text)
  /\ loader' = [pc |-> "done", text |-> NoText]
  /\ UNCHANGED <<clock, disk, handlers>>

\* ------------------------------------------------------- the specifications

\* Two users.  Messages are handled one at a time (a handler returns before
\* the next message is taken), and no write, reply or process fails.
Next ==
  \/ Tick(SoonTick)
  \/ \E userId \in Users, content \in PlainTexts :
       Receive(userId, content, 0, {1}, SoonTick)
  \/ WriteOpen(1)
  \/ WriteData(1, FALSE)
  \/ Reply(1)
  \/ Send(1)

Spec == Init /\ [][Next]_vars

\* One user and a longer time, for the arithmetic of durations.
NextTime ==
  \/ Tick(LastTick)
  \/ \E content \in PlainTexts : Receive("u1", content, 0, {1}, LastTick)
  \/ WriteOpen(1)
  \/ WriteData(1, FALSE)
  \/ Reply(1)
  \/ Send(1)

SpecTime == Init /\ [][NextTime]_vars

\* One user; writes and replies may fail, and the process may crash and start
\* again.
NextFaults ==
  \/ Tick(SoonTick)
  \/ \E content \in PlainTexts : Receive("u1", content, 0, {1}, SoonTick)
  \/ WriteOpen(1)
  \/ WriteData(1, FALSE)
  \/ WriteFail(1)
  \/ Reply(1)
  \/ ReplyFail(1)
  \/ Send(1)
  \/ SendFail(1)
  \/ CatchReply(1)
  \/ Crash
  \/ LoadRead
  \/ LoadAssign

SpecFaults == Init /\ [][NextFaults]_vars

\* Texts of every kind: commands, status queries, and texts that are neither.
ChatTexts ==
  PlainTexts \cup { <<"kakunin">>, <<"n">>, <<"ja">>, <<"ja", "ja">>,
                    <<"joukyou", "sp", "w">> }

\* One user who writes in every channel and another who only asks for the
\* status, at one instant; the process may crash and start again.
NextChat ==
  \/ \E content \in ChatTexts, channelId \in Channels :
       Message("u1", content, channelId, {1}, FirstTick)
  \/ Message("u2", <<"joukyou">>, "attendance", {1}, FirstTick)
  \/ WriteOpen(1)
  \/ WriteData(1, FALSE)
  \/ Reply(1)
  \/ Send(1)
  \/ StatusReply(1)
  \/ Translated(1)
  \/ Return(1)
  \/ Crash
  \/ LoadRead
  \/ LoadAssign

SpecChat == Init /\ [][NextChat]_vars

\* Commands with notes, and texts with several keywords.
NoteTexts ==
  { <<"shukkin", "sp", "w">>, <<"shukkin">>, <<"w", "sp", "kyuukei">>,
    <<"saikai", "sp", "kyuukei">>, <<"taikin", "sp", "v">>, <<"taikin">>,
    <<"taikin", "shukkin">>, <<"v", "taikin", "sp", "saikai", "sp", "taikin">> }

\* One user who writes notes.
NextNotes ==
  \/ Tick(SoonTick)
  \/ \E content \in NoteTexts : Receive("u1", content, 0, {1}, SoonTick)
  \/ WriteOpen(1)
  \/ WriteData(1, FALSE)
  \/ Reply(1)
  \/ Send(1)

SpecNotes == Init /\ [][NextNotes]_vars

\* One user whose messages are handled while earlier handlers still wait for
\* their save or their reply; two writes of the file may overlap.
NextRace ==
  \/ \E content \in PlainTexts : Receive("u1", content, 0, Slots, FirstTick)
  \/ \E h \in Slots :
       \/ WriteOpen(h)
       \/ \E mixed \in BOOLEAN : WriteData(h, mixed)
       \/ Reply(h)
       \/ Send(h)

SpecRace == Init /\ [][NextRace]_vars

\* The last instants of day 0 and the first ones of day 1.
NightFirstTick == TicksPerDay - ShortTicks
NightLastTick == TicksPerDay + ShortTicks

\* The service has started on a host without attendance.json, shortly before
\* midnight UTC.
InitNight ==
  /\ attendanceData = EmptyMap
  /\ clock = NightFirstTick
  /\ disk = [kind |-> "missing", data |-> EmptyMap, by |-> 0, len |-> 0]
  /\ handlers = [h \in Slots |-> IdleSlot]
  /\ loader = [pc |-> "done", text |-> NoText]

\* One user around midnight; the clock may advance between the two reads of
\* the messageCreate handler.
NextNight ==
  \/ Tick(NightLastTick)
  \/ \E content \in PlainTexts, adv \in {0, 1} :
       Receive("u1", content, adv, {1}, NightLastTick)
  \/ WriteOpen(1)
  \/ WriteData(1, FALSE)
  \/ Reply(1)
  \/ Send(1)

SpecNight == InitNight /\ [][NextNight]_vars

\* ---------------------------------------------------------------- the claims

\* The day keys, the instants and the reports the claims range over.
Days == {DateOf(t) : t \in FirstTick..LastTick}
Instants == FirstTick..LastTick
Reports == {<<>>, <<"w">>}

\* The state of the record of a user and a day: "none" when there is none.
StatusOf(data, userId, day) ==
  IF HasRecord(data, userId, day) THEN data[userId][day].status ELSE "none"

\* The rejection or "ok" the claims expect of each command in each state.
ExpectedBreak(st) ==
  IF st = "working" THEN "ok"
  ELSE IF st = "none" THEN "NotCheckedIn"
  ELSE IF st = "break" THEN "AlreadyOnBreak"
  ELSE IF st = "finished" THEN "AlreadyFinished"
  ELSE "undefined"
ExpectedReturn(st) ==
  IF st = "break" THEN "ok"
  ELSE IF st \in {"none", "working", "finished"} THEN "NotOnBreak"
  ELSE "undefined"
ExpectedOff(st) ==
  IF st \in {"working", "break"} THEN "ok"
  ELSE IF st = "none" THEN "NotCheckedIn"
  ELSE IF st = "finished" THEN "AlreadyFinished"
  ELSE "undefined"

\* C1: in every reachable table, for every user, day, instant and report,
\* StartBreak is accepted exactly when the record is working (and leaves it on
\* break), Resume exactly when it is on break (and leaves it working), CheckOut
\* exactly when it is working or on break (and leaves it finished); in every
\* other state each is rejected with the rejection of that state.
C1_TransitionGuards ==
  \A u \in Users, d \in Days, t \in Instants, r \in Reports :
    LET st == StatusOf(attendanceData, u, d)
    IN  /\ \A o \in handleBreak(attendanceData, u, d, t, r) :
             /\ o.result = ExpectedBreak(st)
             /\ o.result = "ok" => StatusOf(o.data, u, d) = "break"
        /\ \A o \in handleReturn(attendanceData, u, d, t, r) :
             /\ o.result = ExpectedReturn(st)
             /\ o.result = "ok" => StatusOf(o.data, u, d) = "working"
        /\ \A o \in handleOff(attendanceData, u, d, t, r) :
             /\ o.result = ExpectedOff(st)
             /\ o.result = "ok" => StatusOf(o.data, u, d) = "finished"

\* C1 witness: one user is on break after a first break was closed, the other
\* has checked out.
C1_Witness ==
  \E u, v \in Users :
    /\ StatusOf(attendanceData, u, 0) = "break"
    /\ Len(attendanceData[u][0].breaks) = 2
    /\ StatusOf(attendanceData, v, 0) = "finished"

\* C2: in every reachable table, CheckIn is rejected with AlreadyCheckedIn
\* exactly when a record with a check-in exists for the user and the day, and
\* then leaves the table as it is; otherwise it is accepted and creates the
\* record, working, checked in at the instant of the command, without breaks.
C2_CheckIn ==
  \A u \in Users, d \in Days, t \in Instants, r \in Reports :
    LET exists == /\ HasRecord(attendanceData, u, d)
                  /\ IsSet(attendanceData[u][d].start)
    IN  \A o \in handleStart(attendanceData, u, d, t, r) :
          /\ o.result = "AlreadyCheckedIn" <=> exists
          /\ exists => o.data = attendanceData
          /\ ~exists =>
               /\ o.result = "ok"
               /\ HasRecord(o.data, u, d)
               /\ o.data[u][d].status = "working"
               /\ o.data[u][d].start = Set(t)
               /\ o.data[u][d].breaks = <<>>
               /\ \A v \in DOMAIN attendanceData : \A e \in DOMAIN attendanceData[v] :
                    HasRecord(o.data, v, e) /\ o.data[v][e] = attendanceData[v][e]

\* C2 witness: one user has a record that is no longer as CheckIn made it, the
\* other has none.
C2_Witness ==
  \E u, v \in Users :
    /\ StatusOf(attendanceData, u, 0) = "finished"
    /\ ~Has(attendanceData, v)

\* C3: every record has at most one break without end, and that break is the
\* last of its list.
C3_OneOpenBreak ==
  \A u \in DOMAIN attendanceData : \A d \in DOMAIN attendanceData[u] :
    LET breaks == attendanceData[u][d].breaks
    IN  \A i \in 1..Len(breaks) : ~IsSet(breaks[i].end) => i = Len(breaks)

\* C3 witness: a record with a closed break followed by an open one.
C3_Witness ==
  \E u \in Users :
    /\ HasRecord(attendanceData, u, 0)
    /\ Len(attendanceData[u][0].breaks) = 2
    /\ IsSet(attendanceData[u][0].breaks[1].end)
    /\ ~IsSet(attendanceData[u][0].breaks[2].end)

\* C4: a step taken from a state in which a record is finished leaves that
\* record as it is, whatever command the step handles.
C4_FinishedIsFrozen ==
  [][\A u \in Users, d \in Days :
       StatusOf(attendanceData, u, d) = "finished"
         => /\ HasRecord(attendanceData', u, d)
            /\ attendanceData'[u][d] = attendanceData[u][d]]_vars

\* C4 witness: a record is finished and a later command has been accepted
\* (the other user has checked in after that check-out).
C4_Witness ==
  \E u, v \in Users :
    /\ StatusOf(attendanceData, u, 0) = "finished"
    /\ HasRecord(attendanceData, v, 0)
    /\ Val(attendanceData[v][0].start) > Val(attendanceData[u][0].end)

\* C5 as stated: when a record is finished, each of the four commands is
\* rejected with AlreadyFinished.
C5_AllAlreadyFinished ==
  \A u \in Users, d \in Days, t \in Instants, r \in Reports :
    StatusOf(attendanceData, u, d) = "finished"
      => \A c \in {"start", "break", "return", "off"} :
           \A o \in Apply(c, attendanceData, u, d, t, r) :
             o.result = "AlreadyFinished"

\* C5 as amended: when a record is finished, each of the four commands is
\* rejected and leaves the table as it is: StartBreak and CheckOut with
\* AlreadyFinished, CheckIn with AlreadyCheckedIn, Resume with NotOnBreak.
C5_FinishedRejectsAll ==
  \A u \in Users, d \in Days, t \in Instants, r \in Reports :
    StatusOf(attendanceData, u, d) = "finished"
      => \A c \in {"start", "break", "return", "off"} :
           \A o \in Apply(c, attendanceData, u, d, t, r) :
             /\ o.data = attendanceData
             /\ o.result = (CASE c = "start"  -> "AlreadyCheckedIn"
                              [] c = "break"  -> "AlreadyFinished"
                              [] c = "return" -> "NotOnBreak"
                              [] c = "off"    -> "AlreadyFinished")

\* C5 witness: a record is finished, after a break.
C5_Witness ==
  \E u \in Users :
    /\ StatusOf(attendanceData, u, 0) = "finished"
    /\ Len(attendanceData[u][0].breaks) > 0

\* Whether the table rejects the command of a message text of a user now.
Rejects(userId, content) ==
  LET info == checkForAttendanceCommand(content)
  IN  /\ ~IsStatusQuery(content)
      /\ IsSet(info)
      /\ \A o \in Apply(Val(info).command, attendanceData, userId, DateOf(clock),
                        clock, Trim(Val(info).additionalText)) :
           o.result \in {"AlreadyCheckedIn", "NotCheckedIn", "AlreadyOnBreak",
                         "NotOnBreak", "AlreadyFinished"}

\* C6: a step that handles a rejected command changes neither the table nor
\* the handlers (no save is started) nor the file; and in every reachable
\* table StartBreak, Resume and CheckOut of a user without record for the day
\* are rejected and create none.
C6_RejectionChangesNothing ==
  [][/\ \A u \in Users, c \in PlainTexts :
          (Receive(u, c, 0, {1}, SoonTick) /\ Rejects(u, c))
            => UNCHANGED <<attendanceData, handlers, disk>>
     /\ \A u \in Users, d \in Days, t \in Instants, r \in Reports :
          ~HasRecord(attendanceData, u, d)
            => \A c \in {"break", "return", "off"} :
                 \A o \in Apply(c, attendanceData, u, d, t, r) :
                   /\ o.result # "ok"
                   /\ o.data = attendanceData
                   /\ ~HasRecord(o.data, u, d)]_vars

\* C6 witness: a user has no record while the other has one that rejects
\* CheckIn and Resume, and no handler is running.
C6_Witness ==
  \E u, v \in Users :
    /\ ~Has(attendanceData, u)
    /\ StatusOf(attendanceData, v, 0) = "working"
    /\ Len(attendanceData[v][0].breaks) = 1
    /\ handlers[1].pc = "idle"
    /\ Rejects(u, <<"kyuukei">>)
    /\ Rejects(v, <<"saikai">>)

\* The whole number nearest to ticks / TicksPerMinute, a half counting upwards.
RoundedMinutes(ticks) ==
  CHOOSE m \in 0..(ticks + 1) :
    /\ 2 * TicksPerMinute * m - TicksPerMinute <= 2 * ticks
    /\ 2 * ticks < 2 * TicksPerMinute * m + TicksPerMinute

\* The sum of the durations of a list of closed breaks.
RECURSIVE SumDurations(_)
SumDurations(breaks) ==
  IF breaks = <<>> THEN 0
  ELSE Val(Head(breaks).duration) + SumDurations(Tail(breaks))

\* C7: a step that takes a record from on break to finished keeps its breaks
\* but the last, which it closes at the instant of the check-out with the
\* rounded number of minutes since its start; that number is part of the
\* stored totalBreakMinutes, and no break of the record is left open.
C7_CheckOutClosesBreak ==
  [][\A d \in Days :
       (/\ StatusOf(attendanceData, "u1", d) = "break"
        /\ StatusOf(attendanceData', "u1", d) = "finished")
         => LET old == attendanceData["u1"][d]
                new == attendanceData'["u1"][d]
                n == Len(old.breaks)
            IN  /\ n > 0
                /\ Len(new.breaks) = n
                /\ \A i \in 1..(n - 1) : new.breaks[i] = old.breaks[i]
                /\ new.end = Set(clock')
                /\ new.breaks[n].start = old.breaks[n].start
                /\ new.breaks[n].end = new.end
                /\ new.breaks[n].duration =
                     Set(RoundedMinutes(clock' - old.breaks[n].start))
                /\ \A i \in 1..n : IsSet(new.breaks[i].end)
                /\ new.totalBreakMinutes = Set(SumDurations(new.breaks))]_vars

\* C7 witness: a finished record whose last break ends at the check-out, after
\* less than a minute that counts as one, and follows another break.
C7_Witness ==
  /\ StatusOf(attendanceData, "u1", 0) = "finished"
  /\ LET rec == attendanceData["u1"][0]
     IN  /\ Len(rec.breaks) = 2
         /\ rec.breaks[2].end = rec.end
         /\ rec.breaks[2].start < Val(rec.end)
         /\ Val(rec.end) - rec.breaks[2].start < TicksPerMinute
         /\ rec.breaks[2].duration = Set(1)
         /\ Val(rec.totalBreakMinutes) >= 1

\* The tables left by a command accepted from one of the tables S.
After(S, command, now) ==
  UNION {{o.data : o \in {x \in Apply(command, data, "u1", 0, now, <<>>) :
                            x.result = "ok"}} : data \in S}

\* CheckIn 09:00, StartBreak 12:00, Resume 12:30, CheckOut 18:00.
ScenarioTables ==
  After(After(After(After({EmptyMap},
    "start", 9 * TicksPerHour),
    "break", 12 * TicksPerHour),
    "return", 12 * TicksPerHour + 30 * TicksPerMinute),
    "off", 18 * TicksPerHour)

\* C8: every finished record stores as totalBreakMinutes the sum of the
\* durations of its breaks, and as totalHours a number of hundredths that is
\* within half a hundredth of (checkOut - checkIn) hours less
\* totalBreakMinutes / 60; and the scenario of the claim ends with a break of
\* 30 minutes, totalBreakMinutes 30 and totalHours 8.50.
C8_Totals ==
  /\ \A d \in Days :
       StatusOf(attendanceData, "u1", d) = "finished"
         => LET rec == attendanceData["u1"][d]
                ticks == (Val(rec.end) - Val(rec.start))
                           - Val(rec.totalBreakMinutes) * TicksPerMinute
                diff == 100 * ticks - Val(rec.totalHours) * TicksPerHour
            IN  /\ \A i \in 1..Len(rec.breaks) : IsSet(rec.breaks[i].duration)
                /\ rec.totalBreakMinutes = Set(SumDurations(rec.breaks))
                /\ 2 * diff <= TicksPerHour
                /\ -2 * diff <= TicksPerHour
  /\ ScenarioTables # {}
  /\ \A data \in ScenarioTables :
       /\ data["u1"][0].breaks[1].duration = Set(30)
       /\ data["u1"][0].totalBreakMinutes = Set(30)
       /\ data["u1"][0].totalHours = Set(850)

\* C8 witness: a finished record with a break that counts, so that the work
\* time is less than the time between check-in and check-out.
C8_Witness ==
  /\ StatusOf(attendanceData, "u1", 0) = "finished"
  /\ Val(attendanceData["u1"][0].totalBreakMinutes) >= 1
  /\ Val(attendanceData["u1"][0].end) - Val(attendanceData["u1"][0].start)
       = MaxTicks

\* The handlers that a step leaves waiting for a save they have just asked for.
SavesStarted ==
  {h \in Slots : handlers[h].write # "requested" /\ handlers'[h].write = "requested"}

\* The step handles a message of the user and accepts its command.
AcceptStep ==
  /\ \E c \in PlainTexts : Receive("u1", c, 0, {1}, SoonTick)
  /\ attendanceData' # attendanceData

\* C9: a step that accepts a command starts exactly one save, of the text of
\* the whole table as the step leaves it, and no other step starts a save; a
\* step that sends an acknowledgment is taken by a handler that waits for its
\* save, when the write of that save has ended, in success or in failure.
C9_SaveThenAck ==
  [][/\ AcceptStep => Cardinality(SavesStarted) = 1
     /\ \A h \in SavesStarted :
          /\ AcceptStep
          /\ handlers[h].pc = "idle"
          /\ handlers'[h].pc = "save"
          /\ handlers'[h].text = JSONstringify(attendanceData')
     /\ \A h \in Slots :
          (handlers[h].pc # "sent" /\ handlers'[h].pc = "sent")
            => /\ handlers[h].pc = "save"
               /\ handlers[h].write \in {"done", "failed"}
               /\ handlers'[h].write = handlers[h].write]_vars

\* C9 witness: an acknowledgment has been sent after a write that succeeded,
\* of a table with a finished record.
C9_Witness ==
  /\ handlers[1].pc = "sent"
  /\ handlers[1].write = "done"
  /\ handlers[1].command = "off"
  /\ disk.kind = "json"
  /\ StatusOf(disk.data, "u1", 0) = "finished"

\* The table a startup load would leave if the process crashed now.
AfterCrash == LoadResult([kind |-> disk.kind, data |-> disk.data])

\* Whether a table holds what the transition of a handler did to its record.
EffectPresent(data, hd) ==
  /\ HasRecord(data, hd.user, hd.today)
  /\ LET rec == data[hd.user][hd.today]
     IN  IF hd.command = "start" THEN rec.start = Set(hd.now)
         ELSE IF hd.command = "break"
         THEN \E i \in 1..Len(rec.breaks) : rec.breaks[i].start = hd.now
         ELSE IF hd.command = "return"
         THEN \E i \in 1..Len(rec.breaks) : rec.breaks[i].end = Set(hd.now)
         ELSE /\ hd.command = "off"
              /\ rec.end = Set(hd.now)
              /\ rec.status = "finished"

\* C10: whenever a handler has sent its acknowledgment, the table a crash and
\* a startup load would leave holds the effect of its transition.  The code
\* does not keep this: saveAttendanceData swallows a failed write and the
\* handler acknowledges all the same.
C10_AckedIsDurable ==
  \A h \in Slots :
    handlers[h].pc = "sent" => EffectPresent(AfterCrash, handlers[h])

\* The write of the handler has succeeded, no other write has put text in the
\* file while it was open, and no write has touched the file since.
SavedAlone(h) ==
  /\ handlers[h].write = "done"
  /\ ~handlers[h].dirty
  /\ disk.by = h

\* What the code does keep of durability: whenever a handler has sent its
\* acknowledgment and its write has succeeded, overlapped by no other write and
\* followed by none, the file is a complete text and the table a crash and a
\* startup load would leave holds the effect of the transition; and the file
\* changes only in a step of a write, so that this lasts until the next save.
SavedAckIsDurable ==
  [][/\ \A h \in Slots :
          (handlers'[h].pc = "sent" /\ SavedAlone(h)')
            => /\ disk'.kind = "json"
               /\ EffectPresent(AfterCrash', handlers'[h])
     /\ disk' # disk
          => \E h \in Slots :
               /\ handlers[h].write \in {"requested", "opened"}
               /\ handlers'[h].write \in {"opened", "done"}
               /\ handlers'[h].write # handlers[h].write
               /\ disk'.by = h]_vars

\* After a crash, the load has read a table in which the user is on break,
\* saved by a write that succeeded.
SavedAckWitness ==
  /\ loader.pc = "parsing"
  /\ loader.text.kind = "json"
  /\ StatusOf(loader.text.data, "u1", 0) = "break"
  /\ attendanceData = EmptyMap

\* C11: at every instant the file, once a save has begun, is the complete text
\* of a mapping: never empty, truncated or mixed.  The code does not keep this:
\* fs.writeFile empties attendance.json when it opens it and writes the text
\* afterwards, so that between the two steps (and after a crash there) the
\* file is empty.
C11_FileAlwaysComplete == disk.kind \in {"missing", "json"}

\* C12: a step in which the write of a handler fails leaves the table as it
\* is (nothing is rolled back) and leaves the handler where it waits for its
\* save, not in the catch that replies with the failure message; the steps the
\* handler takes afterwards leave the table as it is too; and a handler whose
\* write has failed can send its acknowledgment.
C12_FailedSaveKeepsMutation ==
  /\ [][\A h \in Slots :
          /\ (handlers[h].write # "failed" /\ handlers'[h].write = "failed")
               => /\ attendanceData' = attendanceData
                  /\ handlers'[h].pc = "save"
          /\ (handlers[h].write = "failed" /\ handlers'[h].write = "failed"
                 /\ handlers'[h] # handlers[h])
               => attendanceData' = attendanceData]_vars
  /\ [](\A h \in {1} :
          (handlers[h].pc = "save" /\ handlers[h].write = "failed")
            => ENABLED Reply(h))

\* C12 witness: the acknowledgment of a check-in has been sent after its write
\* failed, the record is in the table and the file is still missing.
C12_Witness ==
  /\ handlers[1].pc = "sent"
  /\ handlers[1].write = "failed"
  /\ handlers[1].command = "start"
  /\ EffectPresent(attendanceData, handlers[1])
  /\ disk.kind = "missing"

\* C13: a step that ends the startup load of a file that is missing or cannot
\* be parsed ends it normally, with the empty table, from which a check-in of
\* any user is accepted and makes the record of the day.
C13_LoadNeverFails ==
  [][(/\ loader.pc = "parsing"
      /\ loader.text.kind # "json"
      /\ loader'.pc \notin {"parsing", "reading"})
       => /\ loader'.pc = "done"
          /\ attendanceData' = EmptyMap
          /\ \A u \in Users :
               \A o \in handleStart(attendanceData', u, DateOf(clock'), clock', <<>>) :
                 /\ o.result = "ok"
                 /\ StatusOf(o.data, u, DateOf(clock')) = "working"]_vars

\* C13 witness: the process crashed while the file was open for writing, the
\* load of the empty file has ended, and a check-in received afterwards has
\* been accepted.
C13_Witness ==
  /\ loader.pc = "done"
  /\ disk.kind = "corrupt"
  /\ handlers[1].write = "requested"
  /\ handlers[1].command = "start"
  /\ StatusOf(attendanceData, "u1", 0) = "working"

\* C14: a step in which a handler takes a status query, and the step in which
\* it returns after its reply (unless the process dies instead), change neither
\* the table nor the file, and start no save: the handler asks for no write.
C14_StatusIsReadOnly ==
  [][\A h \in Slots :
       /\ (handlers[h].pc # "status" /\ handlers'[h].pc = "status")
            => /\ attendanceData' = attendanceData
               /\ disk' = disk
               /\ SavesStarted = {}
               /\ handlers'[h].write = "none"
       /\ (handlers[h].pc = "status" /\ handlers'[h].pc # "status")
            => \/ Crash
               \/ /\ attendanceData' = attendanceData
                  /\ disk' = disk
                  /\ SavesStarted = {}]_vars

\* C14 witness: a status query of a user on break is being answered, and one of
\* a user who has no entry in the table has been.
C14_Witness ==
  /\ handlers[1].pc = "status"
  /\ handlers[1].user = "u1"
  /\ handlers[1].answer = "break"
  /\ ~Has(attendanceData, "u2")
  /\ disk.kind = "json"

\* C15: in every reachable state the status check of a user without record
\* for the current date answers "NotFound"; and a step in which a handler takes
\* a status query leaves it with "NotFound" when the user had no record and
\* with the status of the record otherwise, never with an error.
C15_StatusNotFound ==
  /\ [](\A u \in Users :
          ~HasRecord(attendanceData, u, DateOf(clock))
            => handleStatusCheck(attendanceData, u, DateOf(clock)).answer = "NotFound")
  /\ [][\A h \in Slots :
          (handlers[h].pc # "status" /\ handlers'[h].pc = "status")
            => LET u == handlers'[h].user
               IN  handlers'[h].answer =
                     IF HasRecord(attendanceData, u, DateOf(clock))
                     THEN attendanceData[u][DateOf(clock)].status
                     ELSE "NotFound"]_vars

\* C15 witness: the process has crashed while the file was open for writing,
\* the startup load has ended with the empty table, and the status query of a
\* user is being answered with "NotFound".
C15_Witness ==
  /\ loader.pc = "done"
  /\ disk.kind = "corrupt"
  /\ attendanceData = EmptyMap
  /\ handlers[1].pc = "status"
  /\ handlers[1].answer = "NotFound"

\* The lifecycle keywords in the order of the claim, and their commands.
Priority == <<"shukkin", "kyuukei", "saikai", "taikin">>
CommandOf(keyword) ==
  CASE keyword = "shukkin" -> "start"
    [] keyword = "kyuukei" -> "break"
    [] keyword = "saikai"  -> "return"
    [] keyword = "taikin"  -> "off"

\* The first keyword, in that order, that a text contains.
Highest(content) ==
  Priority[CHOOSE i \in 1..Len(Priority) :
             /\ Includes(content, Priority[i])
             /\ \A j \in 1..(i - 1) : ~Includes(content, Priority[j])]

\* The number of times a token occurs in a text.
RECURSIVE CountOf(_, _)
CountOf(content, token) ==
  IF content = <<>> THEN 0
  ELSE (IF Head(content) = token THEN 1 ELSE 0) + CountOf(Tail(content), token)

\* The text without the first occurrence of its highest keyword and without
\* the blanks at its ends.
ExpectedNote(content) ==
  LET k == Highest(content)
      i == CHOOSE j \in 1..Len(content) :
             /\ content[j] = k
             /\ \A l \in 1..(j - 1) : content[l] # k
  IN  Trim(SubSeq(content, 1, i - 1) \o SubSeq(content, i + 1, Len(content)))

\* C16: for every text with keywords the router returns the command of the
\* first of the four keywords, in the fixed order, that the text contains, and
\* a note in which every other token but the blanks occurs as often as in the
\* text and that keyword once less; and a step that accepts such a message is
\* one transition, that of this command with this note, and starts one save.
C16_RouterPriority ==
  /\ [](\A content \in NoteTexts :
          LET info == checkForAttendanceCommand(content)
          IN  /\ IsSet(info)
              /\ Val(info).keyword = Highest(content)
              /\ Val(info).command = CommandOf(Highest(content))
              /\ \A token \in {"shukkin", "kyuukei", "saikai", "taikin", "w", "v"} :
                   CountOf(Val(info).additionalText, token)
                     = CountOf(content, token)
                         - (IF token = Highest(content) THEN 1 ELSE 0))
  /\ [][\A content \in NoteTexts :
          (Receive("u1", content, 0, {1}, SoonTick) /\ attendanceData' # attendanceData)
            => /\ \E o \in Apply(CommandOf(Highest(content)), attendanceData, "u1",
                                 DateOf(clock), clock, ExpectedNote(content)) :
                    o.result = "ok" /\ o.data = attendanceData'
               /\ handlers'[1].command = CommandOf(Highest(content))
               /\ SavesStarted = {1}]_vars

\* C16 witness: a message with the keywords of check-out and of check-in has
\* checked the user in, with the keyword of check-out as the note; and a
\* message with those of break and of resume has started a break.
C16_Witness ==
  /\ StatusOf(attendanceData, "u1", 0) = "break"
  /\ attendanceData["u1"][0].reports.checkIn = Set(<<"taikin">>)
  /\ attendanceData["u1"][0].breaks[1].report = Set(<<"saikai">>)

\* Whether a text contains one of the four lifecycle keywords.
HasKeyword(content) == \E i \in 1..Len(Priority) : Includes(content, Priority[i])

\* C17 as stated: a step that handles a message with a keyword is not an offer
\* to the translation; a step that handles a message without keyword that is
\* no status query is an offer to the translation and leaves the table as it
\* is.
C17_CommandOrTranslation ==
  [][\A content \in ChatTexts, channelId \in Channels :
       Message("u1", content, channelId, {1}, FirstTick)
         => IF HasKeyword(content)
            THEN handlers'[1].pc \notin {"translate", "return", "status"}
            ELSE IsStatusQuery(content)
                   \/ /\ handlers'[1].pc = "translate"
                      /\ attendanceData' = attendanceData]_vars

\* C17 as amended: a step that handles a message with a keyword is not an offer
\* to the translation; a step that handles a message without keyword that is
\* no status query changes neither the table nor the file and starts no save,
\* and it is an offer to the translation exactly when the channel is neither
\* the attendance nor the git channel, the text is three characters long or
\* more, and it has a Japanese character or three Latin letters or more;
\* otherwise the handler returns and nothing is done with the message.
C17_CommandOrEligibleTranslation ==
  [][\A content \in ChatTexts, channelId \in Channels :
       Message("u1", content, channelId, {1}, FirstTick)
         => IF HasKeyword(content)
            THEN handlers'[1].pc \notin {"translate", "return", "status"}
            ELSE IsStatusQuery(content)
                   \/ /\ attendanceData' = attendanceData
                      /\ disk' = disk
                      /\ SavesStarted = {}
                      /\ handlers'[1].pc \in {"translate", "return"}
                      /\ handlers'[1].pc = "translate"
                           <=> /\ channelId \notin {"attendance", "git"}
                               /\ LengthOf(content) >= 3
                               /\ \/ containsJapanese(content)
                                  \/ SumSeq([i \in 1..Len(content) |->
                                               LettersOf(content[i])]) >= 3]_vars

\* C17 witness: an English text of a user who has checked out is with the
\* translation, and the record is as the check-out left it.
C17_Witness ==
  /\ handlers[1].pc = "translate"
  /\ handlers[1].answer = "en-to-jp"
  /\ StatusOf(attendanceData, "u1", 0) = "finished"

\* The report a record holds for the note of a message: the note, or nothing
\* when the message has no note.
StoredNote(content) ==
  IF ExpectedNote(content) = <<>> THEN Unset ELSE Set(ExpectedNote(content))

\* C18: a step that makes the record of the day stores the note of its message
\* as the check-in report; a step that finishes the record stores the note of
\* its message as the check-out report; and no step changes the check-in
\* report of a record that exists.
C18_NotesAreKept ==
  [][/\ \A content \in NoteTexts :
          Receive("u1", content, 0, {1}, SoonTick)
            => LET day == DateOf(clock)
                   before == StatusOf(attendanceData, "u1", day)
                   after == StatusOf(attendanceData', "u1", day)
               IN  /\ (before = "none" /\ after # "none")
                        => attendanceData'["u1"][day].reports.checkIn
                             = StoredNote(content)
                   /\ (before # "finished" /\ after = "finished")
                        => attendanceData'["u1"][day].reports.checkOut
                             = StoredNote(content)
     /\ \A u \in Users, day \in Days :
          (HasRecord(attendanceData, u, day) /\ HasRecord(attendanceData', u, day))
            => attendanceData'[u][day].reports.checkIn
                 = attendanceData[u][day].reports.checkIn]_vars

\* C18 witness: the user has checked in with the note "w", has taken a break,
\* and has checked out with the note "v"; the record holds both.
C18_Witness ==
  /\ StatusOf(attendanceData, "u1", 0) = "finished"
  /\ attendanceData["u1"][0].reports = [checkIn |-> Set(<<"w">>), checkOut |-> Set(<<"v">>)]
  /\ Len(attendanceData["u1"][0].breaks) > 0

\* The changes of status the state machine allows.
Transitions ==
  { <<"none", "working">>, <<"working", "break">>, <<"break", "working">>,
    <<"working", "finished">>, <<"break", "finished">> }

\* The breaks of a record agree with its status: every break but the last is
\* closed, and the last is open exactly when the record is on break.
BreaksAgree(rec) ==
  /\ \A i \in 1..(Len(rec.breaks) - 1) : IsSet(rec.breaks[i].end)
  /\ rec.status = "break"
       <=> (Len(rec.breaks) > 0 /\ ~IsSet(rec.breaks[Len(rec.breaks)].end))

\* C19: while handlers overlap, every change of the table is one whole
\* transition: the outcome of one accepted command applied to the table as it
\* was just before the step, along a change of status the state machine allows;
\* and the breaks of every record agree with its status at all times.
C19_AtomicTransitions ==
  /\ [](\A u \in Users, day \in Days :
          HasRecord(attendanceData, u, day) => BreaksAgree(attendanceData[u][day]))
  /\ [][attendanceData' # attendanceData
          => /\ \E command \in {"start", "break", "return", "off"} :
                  \E o \in Apply(command, attendanceData, "u1", DateOf(clock), clock, <<>>) :
                    o.result = "ok" /\ o.data = attendanceData'
             /\ <<StatusOf(attendanceData, "u1", DateOf(clock)),
                   StatusOf(attendanceData', "u1", DateOf(clock))>> \in Transitions]_vars

\* C19 witness: the handler of a StartBreak still waits for its save when a
\* CheckOut is accepted; the record is finished and its break is closed.
C19_Witness ==
  /\ handlers[1].command = "break"
  /\ handlers[1].pc = "save"
  /\ handlers[2].command = "off"
  /\ handlers[2].pc = "save"
  /\ StatusOf(attendanceData, "u1", 0) = "finished"
  /\ IsSet(attendanceData["u1"][0].breaks[1].end)

\* C20: in every reachable table the status of every record agrees with its
\* fields: it is finished exactly when the end is set; on break exactly when
\* the end is unset and the last break has no end; and working exactly when
\* the start is set, the end is unset and no break is open.
C20_StatusAgreesWithFields ==
  \A u \in Users, day \in Days :
    HasRecord(attendanceData, u, day)
      => LET rec == attendanceData[u][day]
             open == {i \in 1..Len(rec.breaks) : ~IsSet(rec.breaks[i].end)}
         IN  /\ rec.status \in {"working", "break", "finished"}
             /\ rec.status = "finished" <=> IsSet(rec.end)
             /\ rec.status = "break"
                  <=> (~IsSet(rec.end) /\ Len(rec.breaks) > 0 /\ Len(rec.breaks) \in open)
             /\ rec.status = "working"
                  <=> (IsSet(rec.start) /\ ~IsSet(rec.end) /\ open = {})

\* C20 witness: one user is working again after a break, the other has
\* checked out while on break.
C20_Witness ==
  /\ StatusOf(attendanceData, "u1", 0) = "working"
  /\ Len(attendanceData["u1"][0].breaks) = 1
  /\ StatusOf(attendanceData, "u2", 0) = "finished"
  /\ Len(attendanceData["u2"][0].breaks) = 1
  /\ ~IsSet(attendanceData["u2"][0].breaks[1].returnReport)

\* C21: in every reachable table, in every record, the start is no later than
\* the start of each break, which is no later than the end of that break when
\* it is set, which is no later than the end of the record when it is set; and
\* each break but the first starts no earlier than the end of the one before.
C21_TimesInOrder ==
  \A u \in Users, day \in Days :
    HasRecord(attendanceData, u, day)
      => LET rec == attendanceData[u][day]
         IN  /\ IsSet(rec.start)
             /\ IsSet(rec.end) => Val(rec.start) <= Val(rec.end)
             /\ \A i \in 1..Len(rec.breaks) :
                  LET brk == rec.breaks[i]
                  IN  /\ Val(rec.start) <= brk.start
                      /\ IsSet(brk.end) => brk.start <= Val(brk.end)
                      /\ IsSet(rec.end) => /\ IsSet(brk.end)
                                           /\ Val(brk.end) <= Val(rec.end)
                      /\ i > 1 => /\ IsSet(rec.breaks[i - 1].end)
                                  /\ Val(rec.breaks[i - 1].end) <= brk.start

\* C21 witness: a finished record with two breaks, whose five instants are all
\* different and in order.
C21_Witness ==
  /\ StatusOf(attendanceData, "u1", 0) = "finished"
  /\ LET rec == attendanceData["u1"][0]
     IN  /\ Len(rec.breaks) = 2
         /\ Val(rec.start) < rec.breaks[1].start
         /\ rec.breaks[1].start < Val(rec.breaks[1].end)
         /\ Val(rec.breaks[1].end) < rec.breaks[2].start
         /\ rec.breaks[2].start < Val(rec.end)

\* The day keys around midnight.
NightDays == {DateOf(t) : t \in NightFirstTick..NightLastTick}

\* C22: in every reachable table the date of the start of every record is the
\* day the record is keyed under.  The code does not keep this: the handler
\* reads the clock once for the day key and once more for the timestamp, and
\* midnight may pass between the two reads.
C22_KeyIsDateOfStart ==
  \A u \in Users, day \in NightDays :
    HasRecord(attendanceData, u, day)
      => DateOf(Val(attendanceData[u][day].start)) = day

\* No write is waiting or under way.
WritesEnded == \A h \in Slots : handlers[h].write \notin {"requested", "opened"}

\* C23: whenever every write that was started has ended, and none has failed,
\* the file holds the complete text of the table as it is in memory.  The code
\* does not keep this: two calls of fs.writeFile on the same file run side by
\* side, and the one with the older text may end last or leave its tail
\* behind the newer text.
C23_FileFollowsTable ==
  (WritesEnded /\ disk.kind # "missing")
    => /\ disk.kind = "json"
       /\ disk.data = attendanceData

\* C24: a step that ends the startup load leaves in the table the effect of
\* the transition of every handler that took its command while the load was
\* under way.  The code does not keep this: loadAttendanceData assigns the
\* table it has read, or the empty table, to attendanceData after its await,
\* over whatever the handlers have put there meanwhile.
C24_LoadKeepsTransitions ==
  [][(loader.pc = "parsing" /\ loader'.pc = "done")
       => \A h \in Slots :
            handlers[h].pc \in {"save", "sent"}
              => EffectPresent(attendanceData', handlers[h])]_vars

\* C25: in every reachable table every finished record has a total of hours
\* that is not negative and a total of break minutes that is no longer than
\* the time from its start to its end.  The code does not keep this: a break of
\* half a minute counts as one minute, which may be more than the whole day
\* lasted.
C25_WorkTimeNotNegative ==
  \A u \in Users, day \in Days :
    StatusOf(attendanceData, u, day) = "finished"
      => LET rec == attendanceData[u][day]
         IN  /\ Val(rec.totalHours) >= 0
             /\ Val(rec.totalBreakMinutes) * TicksPerMinute
                  <= Val(rec.end) - Val(rec.start)

\* C26: whenever a handler is in the catch that sends the failure reply, the
\* table does not hold the effect of its command.  The code does not keep
\* this: the catch also takes the errors of the replies and sends that follow
\* the mutation and its save.
C26_FailureReplyMeansUnchanged ==
  \A h \in Slots :
    handlers[h].pc = "catch" => ~EffectPresent(attendanceData, handlers[h])

\* C27: in every reachable state, for every record of the user that is working
\* or on break, a check-out handled now is accepted and leaves that record
\* finished, with its end and its totals set.  The code does not keep this:
\* handleOff looks for the record under the date of the clock, and after
\* midnight the record of the day before is not found.
C27_SessionCanBeFinished ==
  \A day \in NightDays :
    StatusOf(attendanceData, "u1", day) \in {"working", "break"}
      => \A o \in handleOff(attendanceData, "u1", DateOf(clock), clock, <<>>) :
           /\ o.result = "ok"
           /\ StatusOf(o.data, "u1", day) = "finished"
           /\ IsSet(o.data["u1"][day].end)
           /\ IsSet(o.data["u1"][day].totalHours)
           /\ IsSet(o.data["u1"][day].totalBreakMinutes)

============================================================================
